---------------------------- MODULE Spec2Model ----------------------------
(***************************************************************************)
(* Model of adventure.py: the two regular-expression extractors            *)
(* (extract_journal_dates, extract_secret_codes), the two tabular loaders  *)
(* and the command-line entry point.                                       *)
(*                                                                         *)
(* A text is a sequence of characters.  An ASCII character is the          *)
(* one-character string holding it; a character outside ASCII is the       *)
(* string naming its code point ("U+0663" is ARABIC-INDIC DIGIT THREE).    *)
(***************************************************************************)
EXTENDS Integers, Sequences, FiniteSets, TLC

VARIABLES
    journal_text,     \* the text a caller is about to hand to an extractor
    pieces,           \* how many fragments journal_text was put together from
    call,             \* the last extractor call: function, argument, outcome
    fs,               \* the three files of the entry point, each with its condition
    journal_file,     \* decoded content of journal.txt
    pc,               \* position of the entry point
    stdout,           \* what the entry point has printed, in order
    raised,           \* the exception that left the entry point, or "none"
    reads,            \* how many times each file has been opened
    JOURNAL_CONTENT,  \* adventure.py:103
    DATE_LIST,        \* adventure.py:106
    CODE_LIST         \* adventure.py:110

extractVars == <<journal_text, pieces, call>>
mainVars == <<fs, journal_file, pc, stdout, raised, reads,
              JOURNAL_CONTENT, DATE_LIST, CODE_LIST>>
vars == <<journal_text, pieces, call, fs, journal_file, pc, stdout, raised,
          reads, JOURNAL_CONTENT, DATE_LIST, CODE_LIST>>

-----------------------------------------------------------------------------
(* Character classes of Python's re module on str patterns.                *)

AsciiDigits == {"0", "1", "2", "3", "4", "5", "6", "7", "8", "9"}

\* Decimal digits (Unicode category Nd) outside ASCII that occur in the texts.
UnicodeDigits == {"U+0663"}

AsciiLetters ==
    {"a", "b", "c", "d", "e", "f", "g", "h", "i", "j", "k", "l", "m",
     "n", "o", "p", "q", "r", "s", "t", "u", "v", "w", "x", "y", "z",
     "A", "B", "C", "D", "E", "F", "G", "H", "I", "J", "K", "L", "M",
     "N", "O", "P", "Q", "R", "S", "T", "U", "V", "W", "X", "Y", "Z"}

\* \d of a str pattern: any Unicode decimal digit.
IsDigit(c) == c \in AsciiDigits \cup UnicodeDigits

\* \w of a str pattern: Unicode alphanumerics and the underscore.
IsWord(c) == c \in AsciiLetters \cup AsciiDigits \cup UnicodeDigits \cup {"_"}

\* Is the character at position p (1-based) a word character?  Positions
\* outside the text hold no character.
IsWordAt(text, p) == p \in 1..Len(text) /\ IsWord(text[p])

\* WordBoundary with the \b left out of the pattern.
NoBoundary(text, p) == TRUE

\* \b tried in front of position p: exactly one of the characters before
\* and after the gap is a word character.
WordBoundary(text, p) == IsWordAt(text, p - 1) # IsWordAt(text, p)

\* A literal pattern character tried at position p.
Literal(text, p, c) == p \in 1..Len(text) /\ text[p] = c

-----------------------------------------------------------------------------
(* date_pattern, adventure.py:54                                           *)

\* MonthGroup written (0[1-9]|1[01])
MonthGroupToEleven(text, p) ==
    /\ p + 1 <= Len(text)
    /\ \/ text[p] = "0" /\ text[p + 1] \in AsciiDigits \ {"0"}
       \/ text[p] = "1" /\ text[p + 1] \in {"0", "1"}

\* (0[1-9]|1[0-2]) tried at position p
MonthGroup(text, p) ==
    /\ p + 1 <= Len(text)
    /\ \/ text[p] = "0" /\ text[p + 1] \in AsciiDigits \ {"0"}
       \/ text[p] = "1" /\ text[p + 1] \in {"0", "1", "2"}

\* DayGroup written (0[1-9]|[12][0-9]|3[0-9])
DayGroupThirties(text, p) ==
    /\ p + 1 <= Len(text)
    /\ \/ text[p] = "0" /\ text[p + 1] \in AsciiDigits \ {"0"}
       \/ text[p] \in {"1", "2"} /\ text[p + 1] \in AsciiDigits
       \/ text[p] = "3" /\ text[p + 1] \in AsciiDigits

\* (0[1-9]|[12][0-9]|3[01]) tried at position p
DayGroup(text, p) ==
    /\ p + 1 <= Len(text)
    /\ \/ text[p] = "0" /\ text[p + 1] \in AsciiDigits \ {"0"}
       \/ text[p] \in {"1", "2"} /\ text[p + 1] \in AsciiDigits
       \/ text[p] = "3" /\ text[p + 1] \in {"0", "1"}

\* YearGroup written (\d{4})
YearGroupAnyDigits(text, p) ==
    /\ p + 3 <= Len(text)
    /\ \A k \in 0..3 : IsDigit(text[p + k])

\* ([12]\d{3}) tried at position p
YearGroup(text, p) ==
    /\ p + 3 <= Len(text)
    /\ text[p] \in {"1", "2"}
    /\ \A k \in 1..3 : IsDigit(text[p + k])

\* DateMatch with the closing \b written \s
DateMatchThenSpace(text, p) ==
    /\ WordBoundary(text, p)
    /\ MonthGroup(text, p)
    /\ Literal(text, p + 2, "/")
    /\ DayGroup(text, p + 3)
    /\ Literal(text, p + 5, "/")
    /\ YearGroup(text, p + 6)
    /\ Literal(text, p + 10, " ")

\* The whole date pattern tried at position p.
DateMatch(text, p) ==
    /\ WordBoundary(text, p)
    /\ MonthGroup(text, p)
    /\ Literal(text, p + 2, "/")
    /\ DayGroup(text, p + 3)
    /\ Literal(text, p + 5, "/")
    /\ YearGroup(text, p + 6)
    /\ WordBoundary(text, p + 10)

\* The three capture groups of a match at position p.
DateGroups(text, p) ==
    <<SubSeq(text, p, p + 1), SubSeq(text, p + 3, p + 4), SubSeq(text, p + 6, p + 9)>>

\* re.findall with a pattern that has groups: the tuples of groups of the
\* non-overlapping matches, scanning from position p to the right.
RECURSIVE FindallDates(_, _)
FindallDates(text, p) ==
    IF p > Len(text) THEN <<>>
    ELSE IF DateMatch(text, p)
         THEN <<DateGroups(text, p)>> \o FindallDates(text, p + 10)
         ELSE FindallDates(text, p + 1)

\* Join written '-'.join(date)
RECURSIVE JoinWithDash(_, _)
JoinWithDash(sep, parts) ==
    IF parts = <<>> THEN <<>>
    ELSE IF Len(parts) = 1 THEN parts[1]
         ELSE parts[1] \o <<"-">> \o JoinWithDash(sep, Tail(parts))

\* '/'.join(date)
RECURSIVE Join(_, _)
Join(sep, parts) ==
    IF parts = <<>> THEN <<>>
    ELSE IF Len(parts) = 1 THEN parts[1]
         ELSE parts[1] \o sep \o Join(sep, Tail(parts))

extract_journal_dates(text) ==
    LET found_dates == FindallDates(text, 1)
    IN  [k \in 1..Len(found_dates) |-> Join(<<"/">>, found_dates[k])]

-----------------------------------------------------------------------------
(* code_pattern, adventure.py:68                                           *)

AZMAR == <<"A", "Z", "M", "A", "R", "-">>

\* CodeMatch written AZMAR-\d{3}\b
CodeMatchWholeWord(text, p) ==
    /\ p + 8 <= Len(text)
    /\ SubSeq(text, p, p + 5) = AZMAR
    /\ \A k \in 6..8 : IsDigit(text[p + k])
    /\ WordBoundary(text, p + 9)

\* AZMAR-\d{3} tried at position p
CodeMatch(text, p) ==
    /\ p + 8 <= Len(text)
    /\ SubSeq(text, p, p + 5) = AZMAR
    /\ \A k \in 6..8 : IsDigit(text[p + k])

\* re.findall with a pattern without groups: the matched substrings.
RECURSIVE FindallCodes(_, _)
FindallCodes(text, p) ==
    IF p > Len(text) THEN <<>>
    ELSE IF CodeMatch(text, p)
         THEN <<SubSeq(text, p, p + 8)>> \o FindallCodes(text, p + 9)
         ELSE FindallCodes(text, p + 1)

extract_secret_codes(text) ==
    LET found_codes == FindallCodes(text, 1)
    IN  found_codes

-----------------------------------------------------------------------------
(* The tabular loaders, adventure.py:13-38.  A file is known by its         *)
(* condition; pandas raises on every condition but "ok".  The errors are   *)
(* named by kind: pandas reports a missing sheet and an unreadable         *)
(* container as ValueError or a subclass, none of them FileNotFoundError.  *)

ArtifactConditions == {"ok", "missing", "no_sheet", "not_a_spreadsheet"}
LocationConditions == {"ok", "missing", "malformed"}
JournalConditions == {"ok", "missing", "undecodable"}

Returns(v) == [kind |-> "return", value |-> v]
Raises(e) == [kind |-> "raise", value |-> e]

\* pd.read_excel(excel_filepath, sheet_name='Main Chamber', skiprows=3)
load_artifact_data(condition) ==
    CASE condition = "missing" -> Raises("FileNotFoundError")
      [] condition = "no_sheet" -> Raises("SheetNotFound")
      [] condition = "not_a_spreadsheet" -> Raises("FormatError")
      [] OTHER -> Returns("artifact_df")

\* pd.read_csv(tsv_filepath, sep='\t')
load_location_notes(condition) ==
    CASE condition = "missing" -> Raises("FileNotFoundError")
      [] condition = "malformed" -> Raises("FormatError")
      [] OTHER -> Returns("location_df")

\* open(JOURNAL_FILE, 'r', encoding='utf-8') and file.read()
read_journal(condition, content) ==
    CASE condition = "missing" -> Raises("FileNotFoundError")
      [] condition = "undecodable" -> Raises("UnicodeDecodeError")
      [] OTHER -> Returns(content)

\* Caught written for a try statement without its except clause.
CaughtNothing(e) == FALSE

\* Caught written for a bare except clause.
CaughtAnything(e) == TRUE

\* except FileNotFoundError:
Caught(e) == e = "FileNotFoundError"

-----------------------------------------------------------------------------
(* Texts.                                                                   *)

D_03_15_2024 == <<"0", "3", "/", "1", "5", "/", "2", "0", "2", "4">>
D_01_01_1000 == <<"0", "1", "/", "0", "1", "/", "1", "0", "0", "0">>
D_12_31_2999 == <<"1", "2", "/", "3", "1", "/", "2", "9", "9", "9">>
D_13_40_2024 == <<"1", "3", "/", "4", "0", "/", "2", "0", "2", "4">>
D_00_15_2024 == <<"0", "0", "/", "1", "5", "/", "2", "0", "2", "4">>
D_03_00_2024 == <<"0", "3", "/", "0", "0", "/", "2", "0", "2", "4">>
D_03_32_2024 == <<"0", "3", "/", "3", "2", "/", "2", "0", "2", "4">>
D_03_15_0999 == <<"0", "3", "/", "1", "5", "/", "0", "9", "9", "9">>
D_03_15_3000 == <<"0", "3", "/", "1", "5", "/", "3", "0", "0", "0">>
AZMAR_12 == <<"A", "Z", "M", "A", "R", "-", "1", "2">>
AZMAR_042 == <<"A", "Z", "M", "A", "R", "-", "0", "4", "2">>

\* The fragments a text is put together from: single characters of every
\* class, dates at and beyond the ends of each field's range, and codes.
Fragments ==
    {<<" ">>, <<"_">>, <<"a">>, <<"1">>, <<"/">>, <<"U+0663">>,
     D_03_15_2024, D_01_01_1000, D_12_31_2999,
     D_13_40_2024, D_00_15_2024, D_03_00_2024, D_03_32_2024,
     D_03_15_0999, D_03_15_3000,
     AZMAR, AZMAR_12, AZMAR_042}

\* The most fragments in a text.
MaxPieces == 3

\* "Visited on 03/15/2024 and again 13/40/2024, see AZMAR-042 and AZMAR-99."
VisitedJournal ==
    <<"V", "i", "s", "i", "t", "e", "d", " ", "o", "n", " ",
      "0", "3", "/", "1", "5", "/", "2", "0", "2", "4", " ",
      "a", "n", "d", " ", "a", "g", "a", "i", "n", " ",
      "1", "3", "/", "4", "0", "/", "2", "0", "2", "4", ",", " ",
      "s", "e", "e", " ", "A", "Z", "M", "A", "R", "-", "0", "4", "2", " ",
      "a", "n", "d", " ", "A", "Z", "M", "A", "R", "-", "9", "9", ".">>

\* "AZMAR-001 ... AZMAR-001"
RepeatedJournal ==
    <<"A", "Z", "M", "A", "R", "-", "0", "0", "1", " ", ".", ".", ".", " ",
      "A", "Z", "M", "A", "R", "-", "0", "0", "1">>

\* What journal.txt may hold.
JournalFiles == {<<>>, VisitedJournal, RepeatedJournal, <<"a", "_">> \o D_12_31_2999}

NoCall == [fn |-> "none", arg |-> <<>>, outcome |-> Returns(<<>>)]

-----------------------------------------------------------------------------
(* Callers of the extractors: a text is put together, and either extractor  *)
(* is called on it at any time.                                             *)

ExtractInit ==
    /\ journal_text = <<>>
    /\ pieces = 0
    /\ call = NoCall

MainIdle ==
    /\ fs = [artifacts |-> "ok", locations |-> "ok", journal |-> "ok"]
    /\ journal_file = <<>>
    /\ pc = "not_started"
    /\ stdout = <<>>
    /\ raised = "none"
    /\ reads = [artifacts |-> 0, locations |-> 0, journal |-> 0]
    /\ JOURNAL_CONTENT = <<>>
    /\ DATE_LIST = <<>>
    /\ CODE_LIST = <<>>

Init == ExtractInit /\ MainIdle

Compose ==
    /\ pieces < MaxPieces
    /\ \E f \in Fragments : journal_text' = journal_text \o f
    /\ pieces' = pieces + 1
    /\ call' = NoCall
    /\ UNCHANGED mainVars

CallExtractJournalDates ==
    /\ call' = [fn |-> "extract_journal_dates", arg |-> journal_text,
                outcome |-> Returns(extract_journal_dates(journal_text))]
    /\ UNCHANGED <<journal_text, pieces>>
    /\ UNCHANGED mainVars

CallExtractSecretCodes ==
    /\ call' = [fn |-> "extract_secret_codes", arg |-> journal_text,
                outcome |-> Returns(extract_secret_codes(journal_text))]
    /\ UNCHANGED <<journal_text, pieces>>
    /\ UNCHANGED mainVars

Next == Compose \/ CallExtractJournalDates \/ CallExtractSecretCodes

Spec == Init /\ [][Next]_vars

-----------------------------------------------------------------------------
(* The entry point, adventure.py:74-114.  Each try statement is one step;   *)
(* an exception its except clause does not name leaves the program.         *)

MainInit ==
    /\ ExtractInit
    /\ fs \in [artifacts : ArtifactConditions,
               locations : LocationConditions,
               journal : JournalConditions]
    /\ journal_file \in JournalFiles
    /\ fs.journal # "ok" => journal_file = <<>>
    /\ pc = "artifacts_banner"
    /\ stdout = <<>>
    /\ raised = "none"
    /\ reads = [artifacts |-> 0, locations |-> 0, journal |-> 0]
    /\ JOURNAL_CONTENT = <<>>
    /\ DATE_LIST = <<>>
    /\ CODE_LIST = <<>>

\* line 80
PrintArtifactsBanner ==
    /\ pc = "artifacts_banner"
    /\ stdout' = Append(stdout, "Loading Artifact Data")
    /\ pc' = "artifacts_try"
    /\ UNCHANGED <<fs, journal_file, raised, reads, JOURNAL_CONTENT, DATE_LIST, CODE_LIST>>
    /\ UNCHANGED extractVars

\* lines 81-88
TryLoadArtifacts ==
    /\ pc = "artifacts_try"
    /\ reads' = [reads EXCEPT !.artifacts = @ + 1]
    /\ LET r == load_artifact_data(fs.artifacts)
       IN  IF r.kind = "return"
           THEN /\ stdout' = Append(stdout, "artifacts: Successfully loaded DataFrame")
                /\ pc' = "locations_banner"
                /\ raised' = raised
           ELSE IF Caught(r.value)
           THEN /\ stdout' = Append(stdout, "artifacts: Error: File not found")
                /\ pc' = "locations_banner"
                /\ raised' = raised
           ELSE /\ raised' = r.value
                /\ pc' = "exited"
                /\ stdout' = stdout
    /\ UNCHANGED <<fs, journal_file, JOURNAL_CONTENT, DATE_LIST, CODE_LIST>>
    /\ UNCHANGED extractVars

\* line 90
PrintLocationsBanner ==
    /\ pc = "locations_banner"
    /\ stdout' = Append(stdout, "Loading Location Notes")
    /\ pc' = "locations_try"
    /\ UNCHANGED <<fs, journal_file, raised, reads, JOURNAL_CONTENT, DATE_LIST, CODE_LIST>>
    /\ UNCHANGED extractVars

\* lines 91-98
TryLoadLocations ==
    /\ pc = "locations_try"
    /\ reads' = [reads EXCEPT !.locations = @ + 1]
    /\ LET r == load_location_notes(fs.locations)
       IN  IF r.kind = "return"
           THEN /\ stdout' = Append(stdout, "locations: Successfully loaded DataFrame")
                /\ pc' = "journal_banner"
                /\ raised' = raised
           ELSE IF Caught(r.value)
           THEN /\ stdout' = Append(stdout, "locations: Error: File not found")
                /\ pc' = "journal_banner"
                /\ raised' = raised
           ELSE /\ raised' = r.value
                /\ pc' = "exited"
                /\ stdout' = stdout
    /\ UNCHANGED <<fs, journal_file, JOURNAL_CONTENT, DATE_LIST, CODE_LIST>>
    /\ UNCHANGED extractVars

\* line 100
PrintJournalBanner ==
    /\ pc = "journal_banner"
    /\ stdout' = Append(stdout, "Processing Journal")
    /\ pc' = "journal_try"
    /\ UNCHANGED <<fs, journal_file, raised, reads, JOURNAL_CONTENT, DATE_LIST, CODE_LIST>>
    /\ UNCHANGED extractVars

\* lines 101-103, 113-114
TryReadJournal ==
    /\ pc = "journal_try"
    /\ reads' = [reads EXCEPT !.journal = @ + 1]
    /\ LET r == read_journal(fs.journal, journal_file)
       IN  IF r.kind = "return"
           THEN /\ JOURNAL_CONTENT' = r.value
                /\ pc' = "extract_dates"
                /\ UNCHANGED <<stdout, raised>>
           ELSE IF Caught(r.value)
           THEN /\ stdout' = Append(stdout, "journal: Error: File not found")
                /\ pc' = "finished"
                /\ UNCHANGED <<JOURNAL_CONTENT, raised>>
           ELSE /\ raised' = r.value
                /\ pc' = "exited"
                /\ UNCHANGED <<JOURNAL_CONTENT, stdout>>
    /\ UNCHANGED <<fs, journal_file, DATE_LIST, CODE_LIST>>
    /\ UNCHANGED extractVars

\* lines 105-107
ExtractDates ==
    /\ pc = "extract_dates"
    /\ DATE_LIST' = extract_journal_dates(JOURNAL_CONTENT)
    /\ stdout' = stdout \o <<"Extracting Dates", "Found dates">>
    /\ pc' = "extract_codes"
    /\ UNCHANGED <<fs, journal_file, raised, reads, JOURNAL_CONTENT, CODE_LIST>>
    /\ UNCHANGED extractVars

\* lines 109-111
ExtractCodes ==
    /\ pc = "extract_codes"
    /\ CODE_LIST' = extract_secret_codes(JOURNAL_CONTENT)
    /\ stdout' = stdout \o <<"Extracting Secret Codes", "Found codes">>
    /\ pc' = "finished"
    /\ UNCHANGED <<fs, journal_file, raised, reads, JOURNAL_CONTENT, DATE_LIST>>
    /\ UNCHANGED extractVars

MainNext ==
    \/ PrintArtifactsBanner
    \/ TryLoadArtifacts
    \/ PrintLocationsBanner
    \/ TryLoadLocations
    \/ PrintJournalBanner
    \/ TryReadJournal
    \/ ExtractDates
    \/ ExtractCodes

MainSpec == MainInit /\ [][MainNext]_vars

-----------------------------------------------------------------------------
(* Vocabulary of the properties: what the documentation calls a date, a     *)
(* code, a delimiter and an occurrence, stated without the regular          *)
(* expressions.                                                             *)

DigitValue ==
    ("0" :> 0) @@ ("1" :> 1) @@ ("2" :> 2) @@ ("3" :> 3) @@ ("4" :> 4) @@
    ("5" :> 5) @@ ("6" :> 6) @@ ("7" :> 7) @@ ("8" :> 8) @@ ("9" :> 9)

\* The two characters at p and p + 1 of t are ASCII digits that read as a
\* number of lo..hi.
TwoDigitField(t, p, lo, hi) ==
    /\ t[p] \in AsciiDigits
    /\ t[p + 1] \in AsciiDigits
    /\ 10 * DigitValue[t[p]] + DigitValue[t[p + 1]] \in lo..hi

IsDecimalDigit(c) == c \in AsciiDigits \cup UnicodeDigits
IsLetter(c) == c \in AsciiLetters
IsAlphanumeric(c) == IsLetter(c) \/ IsDecimalDigit(c)
IsAlphanumericOrUnderscore(c) == IsAlphanumeric(c) \/ c = "_"

\* MM/DD/YYYY with month 01..12, day 01..31, year 1000..2999
IsDateToken(t) ==
    /\ Len(t) = 10
    /\ TwoDigitField(t, 1, 1, 12)
    /\ t[3] = "/"
    /\ TwoDigitField(t, 4, 1, 31)
    /\ t[6] = "/"
    /\ t[7] \in {"1", "2"}
    /\ \A k \in 8..10 : IsDecimalDigit(t[k])

\* AZMAR- and three decimal digits
IsCodeToken(t) ==
    /\ Len(t) = 9
    /\ <<t[1], t[2], t[3], t[4], t[5], t[6]>> = <<"A", "Z", "M", "A", "R", "-">>
    /\ \A k \in 7..9 : IsDecimalDigit(t[k])

\* The n characters of text from position p on.
Slice(text, p, n) == SubSeq(text, p, p + n - 1)

\* The n characters from p on are preceded or followed by a character of
\* the class Glued.
Flanked(text, p, n, Glued(_)) ==
    \/ p > 1 /\ Glued(text[p - 1])
    \/ p + n <= Len(text) /\ Glued(text[p + n])

\* Where a date token stands in the text with, on both sides, the end of
\* the text or a character outside the class Glued.
DelimitedDates(text, Glued(_)) ==
    {p \in 1..Len(text) :
        /\ p + 9 <= Len(text)
        /\ IsDateToken(Slice(text, p, 10))
        /\ ~Flanked(text, p, 10, Glued)}

\* Where a code token stands in the text.
Codes(text) ==
    {p \in 1..Len(text) : p + 8 <= Len(text) /\ IsCodeToken(Slice(text, p, 9))}

\* The n-character substrings at the positions S, from left to right.
RECURSIVE SlicesFrom(_, _, _, _)
SlicesFrom(text, S, n, p) ==
    IF p > Len(text) THEN <<>>
    ELSE IF p \in S
         THEN <<Slice(text, p, n)>> \o SlicesFrom(text, S, n, p + 1)
         ELSE SlicesFrom(text, S, n, p + 1)

SlicesAt(text, S, n) == SlicesFrom(text, S, n, 1)

\* How many positions of S are at or before p.
Rank(S, p) == Cardinality({q \in S : q <= p})

\* a can be had from b by leaving elements out.
RECURSIVE IsSubsequence(_, _)
IsSubsequence(a, b) ==
    IF a = <<>> THEN TRUE
    ELSE IF b = <<>> THEN FALSE
    ELSE IF a[1] = b[1] THEN IsSubsequence(Tail(a), Tail(b))
    ELSE IsSubsequence(a, Tail(b))

\* text holds part somewhere.
Contains(text, part) ==
    \E p \in 1..Len(text) :
        p + Len(part) - 1 <= Len(text) /\ Slice(text, p, Len(part)) = part

CalledDates == call.fn = "extract_journal_dates"
CalledCodes == call.fn = "extract_secret_codes"
Result == call.outcome.value

-----------------------------------------------------------------------------
(* Properties of the extractors, under Spec.                                *)

\* C1: every token extract_journal_dates returns is MM/DD/YYYY with the
\* month one of 01..12, the day one of 01..31 and the year "1" or "2"
\* followed by three decimal digits; nothing with a field out of range is
\* returned.
C1_DatesAreWellFormed ==
    CalledDates => \A k \in 1..Len(Result) : IsDateToken(Result[k])

\* The documented example in small: a date and the look-alike 13/40/2024.
C1_Witness ==
    /\ CalledDates
    /\ call.arg = D_03_15_2024 \o <<" ">> \o D_13_40_2024
    /\ Result = <<D_03_15_2024>>

\* C2 as stated: every date token that stands between the ends of the text
\* or characters that are not alphanumeric is returned unmodified, at its
\* place among such tokens.
C2_DelimitedByNonAlphanumeric ==
    CalledDates =>
        LET S == DelimitedDates(call.arg, IsAlphanumeric)
        IN  \A p \in S :
                /\ Rank(S, p) <= Len(Result)
                /\ Result[Rank(S, p)] = Slice(call.arg, p, 10)

\* C2 amended: every date token that stands between the ends of the text
\* or characters that are neither alphanumeric nor the underscore is
\* returned unmodified, at its place among such tokens.
C2_DelimitedByNonWord ==
    CalledDates =>
        LET S == DelimitedDates(call.arg, IsAlphanumericOrUnderscore)
        IN  \A p \in S :
                /\ Rank(S, p) <= Len(Result)
                /\ Result[Rank(S, p)] = Slice(call.arg, p, 10)

\* Two delimited dates, the second one at the top of every range.
C2_Witness ==
    /\ CalledDates
    /\ call.arg = D_01_01_1000 \o <<"/">> \o D_12_31_2999
    /\ Result = <<D_01_01_1000, D_12_31_2999>>

\* C3: extract_journal_dates returns no date from an occurrence that a
\* digit or a letter touches on either side: what it returns is drawn, in
\* order, from the date tokens no digit or letter touches.
C3_NoDateInsideARun ==
    CalledDates =>
        IsSubsequence(Result,
            SlicesAt(call.arg, DelimitedDates(call.arg, IsAlphanumeric), 10))

\* "101/01/1000" yields nothing.
C3_Witness ==
    /\ CalledDates
    /\ call.arg = <<"1">> \o D_01_01_1000
    /\ Result = <<>>

\* C4: extract_secret_codes returns one token per occurrence of AZMAR-
\* followed by three decimal digits, whatever stands before or after it;
\* the token at an occurrence is the prefix and the first three digits.
C4_CodesAreThePrefixAndThreeDigits ==
    CalledCodes =>
        LET S == Codes(call.arg)
        IN  /\ Len(Result) = Cardinality(S)
            /\ \A k \in 1..Len(Result) : IsCodeToken(Result[k])
            /\ \A p \in S :
                   Result[Rank(S, p)] =
                       <<"A", "Z", "M", "A", "R", "-">> \o Slice(call.arg, p + 6, 3)

\* "aAZMAR-0421": letters before, a fourth digit after.
C4_Witness ==
    /\ CalledCodes
    /\ call.arg = <<"a">> \o AZMAR_042 \o <<"1">>
    /\ Result = <<AZMAR_042>>

\* C5: either extractor returns the matched substrings themselves, from
\* left to right, one element for each place the pattern matches.
C5_ResultIsTheMatchesInOrder ==
    /\ CalledDates =>
           Result = SlicesAt(call.arg,
                        DelimitedDates(call.arg, IsAlphanumericOrUnderscore), 10)
    /\ CalledCodes => Result = SlicesAt(call.arg, Codes(call.arg), 9)

\* The same date twice.
C5_Witness ==
    /\ CalledDates
    /\ call.arg = D_03_15_2024 \o <<" ">> \o D_03_15_2024
    /\ Result = <<D_03_15_2024, D_03_15_2024>>

\* C6: a call of either extractor returns, and returns a sequence; on the
\* empty text, and on any text the pattern does not occur in, the
\* sequence is empty.
C6_TotalAndEmptyWithoutMatches ==
    call.fn # "none" =>
        /\ call.outcome.kind = "return"
        /\ DOMAIN Result = 1..Len(Result)
        /\ call.arg = <<>> => Result = <<>>
        /\ (/\ CalledDates
            /\ DelimitedDates(call.arg, IsAlphanumericOrUnderscore) = {}) => Result = <<>>
        /\ (CalledCodes /\ Codes(call.arg) = {}) => Result = <<>>

\* AZMAR- and two digits: a text that is not empty and holds no code.
C6_Witness ==
    /\ CalledCodes
    /\ call.arg = AZMAR_12
    /\ call.outcome = Returns(<<>>)

\* C10: wherever a text holds a space, what an extractor returns for the
\* text is what it returns for the part before the space followed by what
\* it returns for the part after it.
C10_DistributesOverSpace ==
    \A i \in 1..Len(call.arg) :
        call.arg[i] = " " =>
            LET T1 == SubSeq(call.arg, 1, i - 1)
                T2 == SubSeq(call.arg, i + 1, Len(call.arg))
            IN  /\ CalledDates =>
                       Result = extract_journal_dates(T1) \o extract_journal_dates(T2)
                /\ CalledCodes =>
                       Result = extract_secret_codes(T1) \o extract_secret_codes(T2)

\* A date on each side of the space.
C10_Witness ==
    /\ CalledDates
    /\ call.arg = D_03_15_2024 \o <<" ">> \o D_12_31_2999
    /\ Result = <<D_03_15_2024, D_12_31_2999>>

-----------------------------------------------------------------------------
(* Properties of the entry point, under MainSpec.                           *)

Stages == <<"artifacts", "locations", "journal">>

Banner(s) ==
    CASE s = "artifacts" -> "Loading Artifact Data"
      [] s = "locations" -> "Loading Location Notes"
      [] OTHER -> "Processing Journal"

NotFoundLine(s) ==
    CASE s = "artifacts" -> "artifacts: Error: File not found"
      [] s = "locations" -> "locations: Error: File not found"
      [] OTHER -> "journal: Error: File not found"

ResultLines(s) ==
    CASE s = "artifacts" -> {"artifacts: Successfully loaded DataFrame"}
      [] s = "locations" -> {"locations: Successfully loaded DataFrame"}
      [] OTHER -> {"Found dates", "Found codes"}

\* Where the line was printed, 0 when it was not.
Printed(line) ==
    IF \E i \in 1..Len(stdout) : stdout[i] = line
    THEN CHOOSE i \in 1..Len(stdout) : stdout[i] = line
    ELSE 0

\* What opening the stage's file does.
Attempt(s) ==
    CASE s = "artifacts" -> load_artifact_data(fs.artifacts)
      [] s = "locations" -> load_location_notes(fs.locations)
      [] OTHER -> read_journal(fs.journal, journal_file)

Ended == pc \in {"finished", "exited"}

\* Every file of the stages before stage k is there and loads, or is missing.
NoFailureBefore(k) == \A j \in 1..(k - 1) : fs[Stages[j]] \in {"ok", "missing"}

\* The banners that were printed stand in the order of the stages, and
\* what a stage printed stands after its banner.
InStageOrder ==
    /\ \A j, k \in 1..3 :
           (j < k /\ Printed(Banner(Stages[k])) > 0) =>
               /\ Printed(Banner(Stages[j])) > 0
               /\ Printed(Banner(Stages[j])) < Printed(Banner(Stages[k]))
    /\ \A j, k \in 1..3 : \A line \in ResultLines(Stages[j]) \cup {NotFoundLine(Stages[j])} :
           Printed(line) > 0 =>
               /\ Printed(Banner(Stages[j])) > 0
               /\ Printed(Banner(Stages[j])) < Printed(line)
               /\ (j < k /\ Printed(Banner(Stages[k])) > 0) =>
                      Printed(line) < Printed(Banner(Stages[k]))

\* C8 as stated: whichever files are missing, the run ends normally having
\* printed, in the order of the stages, the "file not found" message of
\* every stage whose file is missing and the results of every stage whose
\* file is present.
C8_EveryStagePrints ==
    Ended =>
        /\ pc = "finished"
        /\ raised = "none"
        /\ InStageOrder
        /\ \A k \in 1..3 :
               /\ fs[Stages[k]] = "missing" => Printed(NotFoundLine(Stages[k])) > 0
               /\ fs[Stages[k]] # "missing" =>
                      \A line \in ResultLines(Stages[k]) : Printed(line) > 0

\* C8 amended: the stages run in the order artifacts, locations, journal.
\* A stage that no earlier stage's load failure (an error other than a
\* missing file) has cut off prints its own "file not found" message when
\* its file is missing and its results when its file is present and loads;
\* a missing file never keeps a later stage from being attempted, and the
\* run ends normally when no file that is present fails to load.
C8_EveryStageReachedPrints ==
    Ended =>
        /\ InStageOrder
        /\ \A k \in 1..3 :
               NoFailureBefore(k) =>
                   /\ Printed(Banner(Stages[k])) > 0
                   /\ reads[Stages[k]] = 1
                   /\ fs[Stages[k]] = "missing" => Printed(NotFoundLine(Stages[k])) > 0
                   /\ fs[Stages[k]] = "ok" =>
                          \A line \in ResultLines(Stages[k]) : Printed(line) > 0
        /\ NoFailureBefore(4) => (pc = "finished" /\ raised = "none")

\* The first two files are missing and the journal is still processed.
C8_Witness ==
    /\ pc = "finished"
    /\ fs = [artifacts |-> "missing", locations |-> "missing", journal |-> "ok"]
    /\ journal_file = VisitedJournal
    /\ stdout = <<"Loading Artifact Data", "artifacts: Error: File not found",
                  "Loading Location Notes", "locations: Error: File not found",
                  "Processing Journal", "Extracting Dates", "Found dates",
                  "Extracting Secret Codes", "Found codes">>
    /\ DATE_LIST = <<D_03_15_2024>>
    /\ CODE_LIST = <<AZMAR_042>>

\* C9: no file is opened twice; an error of a stage other than
\* FileNotFound leaves the entry point as the loader raised it, with no
\* diagnostic and no result printed for the stage and no later stage run;
\* and every such error of a stage that is reached does so.
C9_OtherErrorsPropagate ==
    /\ \A k \in 1..3 : reads[Stages[k]] <= 1
    /\ raised # "none" =>
           /\ pc = "exited"
           /\ raised # "FileNotFoundError"
           /\ \E k \in 1..3 :
                  /\ NoFailureBefore(k)
                  /\ reads[Stages[k]] = 1
                  /\ Attempt(Stages[k]) = Raises(raised)
                  /\ Printed(NotFoundLine(Stages[k])) = 0
                  /\ \A line \in ResultLines(Stages[k]) : Printed(line) = 0
                  /\ stdout[Len(stdout)] = Banner(Stages[k])
                  /\ \A j \in (k + 1)..3 :
                         /\ reads[Stages[j]] = 0
                         /\ Printed(Banner(Stages[j])) = 0
    /\ Ended =>
           \A k \in 1..3 :
               (/\ NoFailureBefore(k)
                /\ Attempt(Stages[k]).kind = "raise"
                /\ Attempt(Stages[k]).value # "FileNotFoundError") =>
                   (pc = "exited" /\ raised = Attempt(Stages[k]).value)

\* The spreadsheet is missing and the table is malformed: the second stage
\* ends the run.
C9_Witness ==
    /\ pc = "exited"
    /\ fs.artifacts = "missing"
    /\ fs.locations = "malformed"
    /\ raised = "FormatError"
    /\ stdout = <<"Loading Artifact Data", "artifacts: Error: File not found",
                  "Loading Location Notes">>
    /\ reads = [artifacts |-> 1, locations |-> 1, journal |-> 0]

=============================================================================
